---- MODULE Spec2Model ----
(***************************************************************************)
(* Model of the Upsonic shopping agent's Streamlit front end               *)
(* (src/streamlit_app.py): the tool-call extractor, the conversation       *)
(* driver run_agent_with_tools and the session-state handling of the page. *)
(***************************************************************************)
EXTENDS Integers, Sequences, FiniteSets, TLC

VARIABLES
    \* extract_tool_calls_from_messages: its arguments and loop state
    all_messages,   \* the messages argument (chat.all_messages)
    start_index,    \* the start_index argument
    idx,            \* 1-based position of the loop in all_messages
    \* shared by the extractor and the streaming loop
    tool_calls,     \* the running list of invocations
    pc,             \* position of the running function
    \* run_agent_with_tools, streaming mode
    entered,        \* number of times the streaming handle was entered
    released,       \* number of times the streaming handle was released
    nevents,        \* events consumed from stream_events()
    event,          \* the loop variable event (line 164)
    response_text,  \* the local response_text
    \* the Streamlit page: st.session_state
    server_url, agent, chat, messages,
    outcome         \* how the last script run ended

vars == <<all_messages, start_index, idx, tool_calls, pc, entered, released,
          nevents, event, response_text, server_url, agent, chat, messages, outcome>>

extractVars == <<all_messages, start_index, idx>>
streamVars == <<entered, released, nevents, event, response_text>>
appVars == <<server_url, agent, chat, messages, outcome>>

-----------------------------------------------------------------------------
(* Bounds of the model *)

MaxHistory == 3     \* length of the history handed to the extractor
MaxStart == 1       \* largest start_index tried
MaxEvents == 3      \* events one stream delivers
MaxTranscript == 4  \* entries of st.session_state.messages

-----------------------------------------------------------------------------
(* Python values *)

None == "<None>"        \* Python's None
Absent == "<absent>"    \* a key or attribute that does not exist
NoArgs == "{}"          \* the empty mapping
SomeArgs == "{items}"   \* a non-empty mapping

\* bool(v) for the values that occur as results
Truthy(v) == v \notin {None, ""}

\* Python's  a or b
PyOr(a, b) == IF Truthy(a) THEN a ELSE b

\* str(n) for a list length
Str(n) == ToString(n)

\* getattr(obj, field, default) / dict.get(key, default)
Get(v, default) == IF v = Absent THEN default ELSE v

-----------------------------------------------------------------------------
(* Tool-call descriptors and message records *)

DictCall(tcid, tname, targs) ==
    [shape |-> "dict", tool_call_id |-> tcid, id |-> Absent,
     tool_name |-> tname, name |-> Absent, args |-> targs, arguments |-> Absent]

ObjCall(tcid, altid, tname, altname, targs, altargs) ==
    [shape |-> "obj", tool_call_id |-> tcid, id |-> altid,
     tool_name |-> tname, name |-> altname, args |-> targs, arguments |-> altargs]

Descriptors ==
    { DictCall("a", "create_cart", NoArgs),
      DictCall("1", "apply_discount", SomeArgs),
      DictCall(Absent, Absent, Absent),
      ObjCall(Absent, "b", Absent, "create_cart", Absent, SomeArgs),
      ObjCall(Absent, Absent, Absent, Absent, Absent, Absent),
      ObjCall("a", "b", "create_cart", "other", NoArgs, SomeArgs) }

CallMessage(descs) ==
    [tool_calls |-> descs, role |-> "assistant", tool_call_id |-> Absent,
     content |-> Absent]

ResultMessage(tcid, content) ==
    [tool_calls |-> <<>>, role |-> "tool", tool_call_id |-> tcid,
     content |-> content]

PlainMessage == [tool_calls |-> <<>>, role |-> "user", tool_call_id |-> Absent,
                 content |-> "hello"]

Messages ==
    { CallMessage(<<d>>) : d \in Descriptors }
    \cup { CallMessage(<<DictCall("a", "create_cart", NoArgs),
                         DictCall(Absent, "apply_discount", NoArgs)>>) }
    \cup { ResultMessage("a", "R"), ResultMessage("a", "S"), ResultMessage("a", ""),
           ResultMessage("1", "S"), ResultMessage("z", "R"),
           ResultMessage(Absent, "R"), ResultMessage(Absent, Absent) }
    \cup { PlainMessage }

-----------------------------------------------------------------------------
(* extract_tool_calls_from_messages *)

\* a faulty variant: the fallback id counts the descriptor itself
DecodeIdOffByOne(tc, n) ==
    IF tc.shape = "dict"
    THEN Get(tc.tool_call_id, Str(n + 1))
    ELSE Get(tc.tool_call_id, Get(tc.id, Str(n + 1)))

\* lines 114-131: one descriptor decoded, n invocations already in the list
DecodeId(tc, n) ==
    IF tc.shape = "dict"
    THEN Get(tc.tool_call_id, Str(n))
    ELSE Get(tc.tool_call_id, Get(tc.id, Str(n)))

DecodeCall(tc, n) ==
    IF tc.shape = "dict"
    THEN [id |-> DecodeId(tc, n),
          name |-> Get(tc.tool_name, "unknown"),
          args |-> Get(tc.args, NoArgs),
          result |-> None]
    ELSE [id |-> DecodeId(tc, n),
          name |-> Get(tc.tool_name, Get(tc.name, "unknown")),
          args |-> Get(tc.args, Get(tc.arguments, NoArgs)),
          result |-> None]

\* a faulty variant: the fallback id counts from the start of each message
RECURSIVE AppendCallsPerMessage(_, _, _)
AppendCallsPerMessage(calls, descs, k) ==
    IF descs = <<>> THEN calls
    ELSE AppendCallsPerMessage(Append(calls, DecodeCall(Head(descs), k)),
                               Tail(descs), k + 1)

AppendCallsLocalIndex(calls, descs) == AppendCallsPerMessage(calls, descs, 0)

\* lines 112-132: every descriptor of one message appended in order
RECURSIVE AppendCalls(_, _)
AppendCalls(calls, descs) ==
    IF descs = <<>> THEN calls
    ELSE AppendCalls(Append(calls, DecodeCall(Head(descs), Len(calls))), Tail(descs))

\* the positions of the invocations whose id equals tcid
Matches(calls, tcid) == { i \in 1..Len(calls) : calls[i].id = tcid }

FirstMatch(calls, tcid) ==
    CHOOSE i \in Matches(calls, tcid) : \A j \in Matches(calls, tcid) : i <= j

\* lines 139-142 and 176-179: the first invocation with that id gets the result
SetFirstMatch(calls, tcid, result) ==
    IF Matches(calls, tcid) = {} THEN calls
    ELSE [calls EXCEPT ![FirstMatch(calls, tcid)].result = result]

\* a faulty variant: the payload goes to the earliest invocation without a result
AttachToFirstUnset(calls, result) ==
    LET unset == { i \in 1..Len(calls) : calls[i].result = None }
    IN IF Truthy(result) /\ unset # {}
       THEN [calls EXCEPT ![CHOOSE i \in unset : \A j \in unset : i <= j].result = result]
       ELSE calls

\* a faulty variant: the payload replaces whatever the last invocation holds
AttachToLastAlways(calls, result) ==
    IF Truthy(result) /\ Len(calls) > 0
    THEN [calls EXCEPT ![Len(calls)].result = result]
    ELSE calls

\* lines 144-145: the last invocation gets a truthy result if it has none
AttachToLast(calls, result) ==
    IF Truthy(result) /\ Len(calls) > 0 /\ calls[Len(calls)].result = None
    THEN [calls EXCEPT ![Len(calls)].result = result]
    ELSE calls

\* lines 135-145: a tool-result record
AttachResult(calls, msg) ==
    LET tool_call_id == Get(msg.tool_call_id, None)
        result == Get(msg.content, None)
    IN AttachToLast(SetFirstMatch(calls, tool_call_id, result), result)

\* lines 111-132: the tool-call part of one loop iteration
ExtractCalls(calls, msg) ==
    IF msg.tool_calls # <<>> THEN AppendCalls(calls, msg.tool_calls) ELSE calls

\* lines 135-145: the tool-result part of one loop iteration
ExtractResult(calls, msg) ==
    IF msg.role = "tool" THEN AttachResult(calls, msg) ELSE calls

\* lines 105-147 as a function of its arguments
RECURSIVE ExtractFrom(_, _, _)
ExtractFrom(msgs, i, calls) ==
    IF i > Len(msgs) THEN calls
    ELSE ExtractFrom(msgs, i + 1, ExtractResult(ExtractCalls(calls, msgs[i]), msgs[i]))

extract_tool_calls_from_messages(msgs, start) == ExtractFrom(msgs, start + 1, <<>>)

-----------------------------------------------------------------------------
(* The page's session state as first initialised (lines 213-217) *)

\* session_state.chat holding None: no session, nothing to probe or call
NoChat == [kind |-> "None", all_messages |-> <<>>]

FreshSession ==
    /\ server_url = None
    /\ agent = None
    /\ chat = NoChat
    /\ messages = <<>>
    /\ outcome = "idle"

NoEvent == [type |-> "none"]

NoStream ==
    /\ entered = 0
    /\ released = 0
    /\ nevents = 0
    /\ event = NoEvent
    /\ response_text = ""

-----------------------------------------------------------------------------
(* The extractor run step by step on a bounded history *)

Histories == UNION { [1..n -> Messages] : n \in 0..MaxHistory }

InitExtract ==
    /\ all_messages \in Histories
    /\ start_index \in 0..MaxStart
    /\ idx = start_index + 1
    /\ tool_calls = <<>>
    /\ pc = "x_calls"
    /\ NoStream
    /\ FreshSession

\* lines 111-132 for the message at idx
ExtractLoopCalls ==
    /\ pc = "x_calls"
    /\ idx <= Len(all_messages)
    /\ tool_calls' = ExtractCalls(tool_calls, all_messages[idx])
    /\ pc' = "x_result"
    /\ UNCHANGED <<extractVars, streamVars, appVars>>

\* lines 135-145 for the message at idx, then the loop advances
ExtractLoopResult ==
    /\ pc = "x_result"
    /\ tool_calls' = ExtractResult(tool_calls, all_messages[idx])
    /\ idx' = idx + 1
    /\ pc' = "x_calls"
    /\ UNCHANGED <<all_messages, start_index, streamVars, appVars>>

\* line 147
ExtractReturn ==
    /\ pc = "x_calls"
    /\ idx > Len(all_messages)
    /\ pc' = "x_returned"
    /\ UNCHANGED <<extractVars, tool_calls, streamVars, appVars>>

NextExtract == ExtractLoopCalls \/ ExtractLoopResult \/ ExtractReturn

SpecExtract == InitExtract /\ [][NextExtract]_vars

-----------------------------------------------------------------------------
(* run_agent_with_tools, streaming mode (lines 159-182), step by step *)

ToolCallEvent(tcid, tname, targs) ==
    [type |-> "call", tool_call_id |-> tcid, tool_name |-> tname, tool_args |-> targs]

ToolResultEvent(tcid, preview, result) ==
    [type |-> "result", tool_call_id |-> tcid, result_preview |-> preview,
     result |-> result]

\* any other event of the stream (a text delta)
TextEvent == [type |-> "text"]

ToolCallEvents ==
    { ToolCallEvent("a", "create_cart", NoArgs),
      ToolCallEvent("b", "apply_discount", SomeArgs) }

ToolResultEvents ==
    { ToolResultEvent("a", "cart-42", "R"), ToolResultEvent("a", None, "R"),
      ToolResultEvent("a", "", "S"), ToolResultEvent("b", None, None),
      ToolResultEvent("b", "ok", "S"), ToolResultEvent("z", "cart-42", "R") }

Texts == { "Cart created." }

\* lines 166-172
OnToolCall(calls, e) ==
    Append(calls, [id |-> e.tool_call_id, name |-> e.tool_name,
                   args |-> e.tool_args, result |-> None])

\* a faulty variant: the raw result is preferred to the preview
OnToolResultRawFirst(calls, e) ==
    SetFirstMatch(calls, e.tool_call_id, PyOr(e.result, e.result_preview))

\* lines 174-179
OnToolResult(calls, e) ==
    SetFirstMatch(calls, e.tool_call_id, PyOr(e.result_preview, e.result))

\* lines 166-179: the body of the event loop
HandleEvent(calls, e) ==
    IF e.type = "call" THEN OnToolCall(calls, e)
    ELSE IF e.type = "result" THEN OnToolResult(calls, e)
    ELSE calls

\* lines 164-179 for a whole finite stream
RECURSIVE RunStream(_, _)
RunStream(calls, evs) ==
    IF evs = <<>> THEN calls
    ELSE RunStream(HandleEvent(calls, Head(evs)), Tail(evs))

InitStream ==
    /\ all_messages = <<>>
    /\ start_index = 0
    /\ idx = 1
    /\ tool_calls = <<>>
    /\ pc = "s_start"
    /\ NoStream
    /\ FreshSession

\* line 161: stream_async returns the streaming handle
StreamAsync ==
    /\ pc = "s_start"
    /\ pc' = "s_handle"
    /\ UNCHANGED <<extractVars, tool_calls, streamVars, appVars>>

\* line 161: stream_async raises
StreamAsyncRaises ==
    /\ pc = "s_start"
    /\ pc' = "s_raised"
    /\ UNCHANGED <<extractVars, tool_calls, streamVars, appVars>>

\* line 163: the handle's context is entered
EnterContext ==
    /\ pc = "s_handle"
    /\ entered' = entered + 1
    /\ pc' = "s_iter"
    /\ UNCHANGED <<extractVars, tool_calls, released, nevents, event,
                   response_text, appVars>>

\* line 163: entering the context raises, nothing was acquired
EnterContextRaises ==
    /\ pc = "s_handle"
    /\ pc' = "s_raised"
    /\ UNCHANGED <<extractVars, tool_calls, streamVars, appVars>>

\* lines 164-172: a tool-call event arrives
OnToolCallEvent ==
    /\ pc = "s_iter"
    /\ nevents < MaxEvents
    /\ \E e \in ToolCallEvents :
          /\ event' = e
          /\ tool_calls' = OnToolCall(tool_calls, e)
    /\ nevents' = nevents + 1
    /\ UNCHANGED <<extractVars, pc, entered, released, response_text, appVars>>

\* lines 164, 174-179: a tool-result event arrives
OnToolResultEvent ==
    /\ pc = "s_iter"
    /\ nevents < MaxEvents
    /\ \E e \in ToolResultEvents :
          /\ event' = e
          /\ tool_calls' = OnToolResult(tool_calls, e)
    /\ nevents' = nevents + 1
    /\ UNCHANGED <<extractVars, pc, entered, released, response_text, appVars>>

\* line 164: an event of neither class arrives
OnOtherEvent ==
    /\ pc = "s_iter"
    /\ nevents < MaxEvents
    /\ event' = TextEvent
    /\ nevents' = nevents + 1
    /\ UNCHANGED <<extractVars, tool_calls, pc, entered, released,
                   response_text, appVars>>

\* lines 163-164: the stream is exhausted, the with block releases the handle
StreamExhausted ==
    /\ pc = "s_iter"
    /\ released' = released + 1
    /\ pc' = "s_text"
    /\ UNCHANGED <<extractVars, tool_calls, entered, nevents, event,
                   response_text, appVars>>

\* a faulty variant: an exception leaves the block without releasing the handle
StreamEventRaisesLeak ==
    /\ pc = "s_iter"
    /\ pc' = "s_raised"
    /\ UNCHANGED <<extractVars, tool_calls, streamVars, appVars>>

\* lines 163-164: iteration raises, the with block releases the handle and
\* the exception leaves run_agent_with_tools
StreamEventRaises ==
    /\ pc = "s_iter"
    /\ released' = released + 1
    /\ pc' = "s_raised"
    /\ UNCHANGED <<extractVars, tool_calls, entered, nevents, event,
                   response_text, appVars>>

\* lines 182 and 191
GetAccumulatedText ==
    /\ pc = "s_text"
    /\ response_text' \in Texts
    /\ pc' = "s_returned"
    /\ UNCHANGED <<extractVars, tool_calls, entered, released, nevents, event,
                   appVars>>

\* line 182: get_accumulated_text raises
GetAccumulatedTextRaises ==
    /\ pc = "s_text"
    /\ pc' = "s_raised"
    /\ UNCHANGED <<extractVars, tool_calls, streamVars, appVars>>

NextStream ==
    \/ StreamAsync
    \/ StreamAsyncRaises
    \/ EnterContext
    \/ EnterContextRaises
    \/ OnToolCallEvent
    \/ OnToolResultEvent
    \/ OnOtherEvent
    \/ StreamExhausted
    \/ StreamEventRaises
    \/ GetAccumulatedText
    \/ GetAccumulatedTextRaises

SpecStream == InitStream /\ [][NextStream]_vars

-----------------------------------------------------------------------------
(* The Streamlit page (lines 213-306): one action per script run *)

Urls == { "http://localhost:8182" }
Prompts == { "Show me available products" }

\* create_agent (lines 84-93) returns an Agent
TheAgent == "Agent"

\* what the Chat object offers: stream_async, or invoke with all_messages,
\* or invoke alone (the probes of lines 156, 159 and 188)
ChatKinds == { "stream", "invoke", "bare" }

\* create_chat (lines 96-102): a new session with an empty history
NewChat(kind) == [kind |-> kind, all_messages |-> <<>>]

UserEntry(prompt) == [role |-> "user", content |-> prompt, tool_calls |-> <<>>]

AssistantEntry(text, calls) ==
    [role |-> "assistant", content |-> text, tool_calls |-> calls]

\* the event streams and the history suffixes a turn of the page may produce
AppStreams ==
    { <<>>,
      <<ToolCallEvent("a", "create_cart", NoArgs),
        ToolResultEvent("a", "cart-42", "R")>>,
      <<ToolCallEvent("b", "apply_discount", SomeArgs)>> }

AppReplies ==
    { <<PlainMessage>>,
      <<PlainMessage, CallMessage(<<DictCall(Absent, "create_cart", NoArgs)>>),
        ResultMessage(Absent, "R")>>,
      <<CallMessage(<<DictCall("a", "create_cart", NoArgs)>>),
        ResultMessage("a", "S")>> }

Init ==
    /\ all_messages = <<>>
    /\ start_index = 0
    /\ idx = 1
    /\ tool_calls = <<>>
    /\ pc = "idle"
    /\ NoStream
    /\ FreshSession

turnVars == <<extractVars, tool_calls, pc, streamVars>>

\* lines 219-234: the form is submitted, agent and chat are created
Connect ==
    /\ server_url = None
    /\ \E url \in Urls, kind \in ChatKinds :
          /\ server_url' = url
          /\ agent' = TheAgent
          /\ chat' = NewChat(kind)
    /\ outcome' = "rerun"
    /\ UNCHANGED <<turnVars, messages>>

\* lines 231-232: create_agent raises after server_url was stored
ConnectAgentRaises ==
    /\ server_url = None
    /\ \E url \in Urls : server_url' = url
    /\ outcome' = "connect_raised"
    /\ UNCHANGED <<turnVars, agent, chat, messages>>

\* lines 231-233: create_chat raises after server_url and agent were stored
ConnectChatRaises ==
    /\ server_url = None
    /\ \E url \in Urls : server_url' = url
    /\ agent' = TheAgent
    /\ outcome' = "connect_raised"
    /\ UNCHANGED <<turnVars, chat, messages>>

\* lines 258-263
Disconnect ==
    /\ server_url # None
    /\ server_url' = None
    /\ agent' = None
    /\ chat' = NoChat
    /\ messages' = <<>>
    /\ outcome' = "rerun"
    /\ UNCHANGED turnVars

\* lines 265-269
ClearChat ==
    /\ server_url # None
    /\ \E kind \in ChatKinds : chat' = NewChat(kind)
    /\ messages' = <<>>
    /\ outcome' = "rerun"
    /\ UNCHANGED <<turnVars, server_url, agent>>

\* line 267: create_chat raises, nothing was assigned yet
ClearChatRaises ==
    /\ server_url # None
    /\ outcome' = "clear_raised"
    /\ UNCHANGED <<turnVars, server_url, agent, chat, messages>>

\* a prompt can be submitted: the page is connected
CanSubmit ==
    /\ server_url # None
    /\ Len(messages) + 2 <= MaxTranscript

\* lines 290-296 with chat = None: line 185 raises AttributeError
SubmitNoChat ==
    /\ CanSubmit
    /\ chat = NoChat
    /\ \E prompt \in Prompts : messages' = Append(messages, UserEntry(prompt))
    /\ outcome' = "turn_raised"
    /\ UNCHANGED <<turnVars, server_url, agent, chat>>

\* lines 290-306, streaming mode: the turn completes
SubmitStream ==
    /\ CanSubmit
    /\ chat # NoChat
    /\ chat.kind = "stream"
    /\ \E prompt \in Prompts, evs \in AppStreams, text \in Texts :
          messages' = messages \o
              <<UserEntry(prompt), AssistantEntry(text, RunStream(<<>>, evs))>>
    /\ outcome' = "rerun"
    /\ UNCHANGED <<turnVars, server_url, agent, chat>>

\* a faulty variant: what was accumulated before the failure is stored
SubmitStreamRaisesKeepsPartial ==
    /\ CanSubmit
    /\ chat # NoChat
    /\ chat.kind = "stream"
    /\ \E prompt \in Prompts, evs \in AppStreams :
          messages' = messages \o
              <<UserEntry(prompt), AssistantEntry("", RunStream(<<>>, evs))>>
    /\ outcome' = "turn_raised"
    /\ UNCHANGED <<turnVars, server_url, agent, chat>>

\* lines 290-296, streaming mode: stream_async, the event iteration or
\* get_accumulated_text raises; the locals of run_agent_with_tools are lost
SubmitStreamRaises ==
    /\ CanSubmit
    /\ chat # NoChat
    /\ chat.kind = "stream"
    /\ \E prompt \in Prompts : messages' = Append(messages, UserEntry(prompt))
    /\ outcome' = "turn_raised"
    /\ UNCHANGED <<turnVars, server_url, agent, chat>>

\* lines 290-306, fallback mode with a readable history (lines 185-189)
SubmitInvoke ==
    /\ CanSubmit
    /\ chat # NoChat
    /\ chat.kind = "invoke"
    /\ \E prompt \in Prompts, reply \in AppReplies, text \in Texts :
          LET messages_before == Len(chat.all_messages)
              history == chat.all_messages \o reply
          IN /\ chat' = [chat EXCEPT !.all_messages = history]
             /\ messages' = messages \o
                  <<UserEntry(prompt),
                    AssistantEntry(text,
                        extract_tool_calls_from_messages(history, messages_before))>>
    /\ outcome' = "rerun"
    /\ UNCHANGED <<turnVars, server_url, agent>>

\* a faulty variant: the assistant entry is stored before the user entry
SubmitBareAssistantFirst ==
    /\ CanSubmit
    /\ chat # NoChat
    /\ chat.kind = "bare"
    /\ \E prompt \in Prompts, text \in Texts :
          messages' = messages \o <<AssistantEntry(text, <<>>), UserEntry(prompt)>>
    /\ outcome' = "rerun"
    /\ UNCHANGED <<turnVars, server_url, agent, chat>>

\* lines 290-306, fallback mode without all_messages: no tool calls
SubmitBare ==
    /\ CanSubmit
    /\ chat # NoChat
    /\ chat.kind = "bare"
    /\ \E prompt \in Prompts, text \in Texts :
          messages' = messages \o <<UserEntry(prompt), AssistantEntry(text, <<>>)>>
    /\ outcome' = "rerun"
    /\ UNCHANGED <<turnVars, server_url, agent, chat>>

\* lines 290-296, fallback mode: invoke raises
SubmitInvokeRaises ==
    /\ CanSubmit
    /\ chat # NoChat
    /\ chat.kind \in {"invoke", "bare"}
    /\ \E prompt \in Prompts : messages' = Append(messages, UserEntry(prompt))
    /\ outcome' = "turn_raised"
    /\ UNCHANGED <<turnVars, server_url, agent, chat>>

Next ==
    \/ Connect
    \/ ConnectAgentRaises
    \/ ConnectChatRaises
    \/ Disconnect
    \/ ClearChat
    \/ ClearChatRaises
    \/ SubmitNoChat
    \/ SubmitStream
    \/ SubmitStreamRaises
    \/ SubmitInvoke
    \/ SubmitBare
    \/ SubmitInvokeRaises

Spec == Init /\ [][Next]_vars

-----------------------------------------------------------------------------
(* One turn's invocation list built either way: by the extractor or by the
   streaming loop *)

InitTurn == InitExtract \/ InitStream

NextTurn == NextExtract \/ NextStream

SpecTurn == InitTurn /\ [][NextTurn]_vars

-----------------------------------------------------------------------------
(* Properties of the extractor, checked under SpecExtract *)

\* the record the loop is at while pc = "x_result"
CurMsg == all_messages[idx]
CurKey == Get(CurMsg.tool_call_id, None)
CurPayload == Get(CurMsg.content, None)
AtResultRecord == pc = "x_result" /\ CurMsg.role = "tool"

\* C1: a tool-result record whose tool_call_id equals the id of an invocation
\* in the list sets the result of the first such invocation and leaves every
\* other invocation unchanged (no best-effort attachment after an id match).
C1_MatchSetsOnlyFirst ==
    [][ (AtResultRecord /\ Matches(tool_calls, CurKey) # {})
        => tool_calls' =
             [tool_calls EXCEPT ![FirstMatch(tool_calls, CurKey)].result = CurPayload]
      ]_vars

\* C2: once an invocation's result is set, no later step of the same turn
\* changes it.
C2_ResultWrittenOnce ==
    [][ \A i \in 1..Len(tool_calls) :
          tool_calls[i].result # None
          => /\ i <= Len(tool_calls')
             /\ tool_calls'[i].result = tool_calls[i].result
      ]_vars

\* the step gives invocation i its result through an id match
SetByIdMatch(i) ==
    \/ /\ AtResultRecord
       /\ Matches(tool_calls, CurKey) # {}
       /\ i = FirstMatch(tool_calls, CurKey)
    \/ /\ pc = "s_iter"
       /\ event'.type = "result"
       /\ Matches(tool_calls, event'.tool_call_id) # {}
       /\ i = FirstMatch(tool_calls, event'.tool_call_id)

\* the step gives invocation i its result through the best-effort attachment
SetByFallback(i) ==
    /\ AtResultRecord
    /\ i = Len(tool_calls)
    /\ tool_calls[i].result = None
    /\ tool_calls'[i].result = CurPayload

\* C2 (amended): an invocation stays in the list, and its result is changed
\* only by a tool-result event or record: by an id match on the first
\* invocation with that id, which overwrites a result already set, or by the
\* best-effort attachment, which only fills an unset result.
C2_OverwriteOnlyByIdMatch ==
    [][ \A i \in 1..Len(tool_calls) :
          /\ i <= Len(tool_calls')
          /\ tool_calls'[i].result # tool_calls[i].result
             => SetByIdMatch(i) \/ SetByFallback(i)
      ]_vars

\* the result "R" of invocation "a" was overwritten by a second record for "a"
C2_Witness ==
    /\ pc = "x_calls"
    /\ idx >= start_index + 3
    /\ all_messages[idx - 2] = ResultMessage("a", "R")
    /\ all_messages[idx - 1] = ResultMessage("a", "S")
    /\ Len(tool_calls) >= 1
    /\ tool_calls[1].id = "a"
    /\ tool_calls[1].result = "S"

\* C3: at every point no two entries of the invocation list have the same id.
C3_UniqueIds ==
    \A i, j \in 1..Len(tool_calls) :
        i # j => tool_calls[i].id # tool_calls[j].id

\* C4: a tool-result record whose tool_call_id matches no invocation id gives
\* its content to the most recent invocation when the content is non-empty and
\* that invocation has no result, and otherwise changes no invocation.
C4_UnmatchedResult ==
    [][ (AtResultRecord /\ Matches(tool_calls, CurKey) = {})
        => LET n == Len(tool_calls)
           IN IF CurPayload \notin {None, ""} /\ n > 0 /\ tool_calls[n].result = None
              THEN tool_calls' = [tool_calls EXCEPT ![n].result = CurPayload]
              ELSE tool_calls' = tool_calls
      ]_vars

\* an unmatched record "z" has given its payload to the last of several
\* invocations and the first is still without a result
C4_Witness ==
    /\ pc = "x_calls"
    /\ idx > start_index + 1
    /\ all_messages[idx - 1] = ResultMessage("z", "R")
    /\ Len(tool_calls) >= 2
    /\ tool_calls[Len(tool_calls)].result = "R"
    /\ tool_calls[1].result = None

\* the descriptors of the messages from..to, in order
RECURSIVE DescriptorsOf(_, _, _)
DescriptorsOf(msgs, from, to) ==
    IF from > to \/ from > Len(msgs) THEN <<>>
    ELSE msgs[from].tool_calls \o DescriptorsOf(msgs, from + 1, to)

\* the descriptors the loop has decoded so far
Decoded ==
    DescriptorsOf(all_messages, start_index + 1,
                  IF pc = "x_result" THEN idx ELSE idx - 1)

NoIdDescriptor(tc) ==
    \/ tc.shape = "dict" /\ tc.tool_call_id = Absent
    \/ tc.shape = "obj" /\ tc.tool_call_id = Absent /\ tc.id = Absent

\* C7: every descriptor decoded since start_index has one invocation, in
\* order, and a descriptor without tool_call_id (mapping shape) or without
\* tool_call_id and id (attribute shape) has as id the stringified number of
\* invocations appended before it.
C7_SynthesizedId ==
    /\ Len(tool_calls) = Len(Decoded)
    /\ \A k \in 1..Len(Decoded) :
          NoIdDescriptor(Decoded[k]) => tool_calls[k].id = ToString(k - 1)

\* with start_index = 1 and a tool call skipped in the first message, the
\* second invocation extracted has the synthesized id "1"
C7_Witness ==
    /\ pc = "x_returned"
    /\ start_index = 1
    /\ Len(all_messages) >= 2
    /\ all_messages[1].tool_calls # <<>>
    /\ Len(tool_calls) >= 2
    /\ Len(Decoded) >= 2
    /\ NoIdDescriptor(Decoded[2])
    /\ tool_calls[2].id = "1"

-----------------------------------------------------------------------------
(* Properties of the streaming loop, checked under SpecStream *)

\* C5: once the streaming handle's context has been entered it is released
\* exactly once on every exit path (exhaustion, or an exception during
\* iteration): never left open after the block, never released twice.
C5_ReleasedOnce ==
    /\ entered <= 1
    /\ released <= entered
    /\ pc = "s_iter" => entered = 1 /\ released = 0
    /\ (entered = 1 /\ pc \in {"s_text", "s_returned", "s_raised"}) => released = 1

\* iteration raised after an event had been handled, and the handle was released
C5_Witness ==
    /\ pc = "s_raised"
    /\ nevents >= 1
    /\ entered = 1
    /\ released = 1

\* C6: a delivered event is handled without error; a tool-call event appends
\* one invocation with result unset; a tool-result event sets the result (the
\* preview if offered, else the raw result) of the first invocation with its
\* tool_call_id and changes no other; one that matches no invocation, and any
\* other event, leaves the list unchanged.
C6_EventHandling ==
    [][ (pc = "s_iter" /\ nevents' = nevents + 1)
        => /\ pc' = "s_iter"
           /\ LET e == event'
                  hits == { i \in 1..Len(tool_calls) :
                              tool_calls[i].id = e.tool_call_id }
              IN CASE e.type = "call" ->
                        tool_calls' =
                          tool_calls \o <<[id |-> e.tool_call_id,
                                           name |-> e.tool_name,
                                           args |-> e.tool_args,
                                           result |-> None]>>
                   [] e.type = "result" /\ hits # {} ->
                        LET k == CHOOSE i \in hits : \A j \in hits : i <= j
                            v == IF e.result_preview \notin {None, ""}
                                 THEN e.result_preview ELSE e.result
                        IN tool_calls' = [tool_calls EXCEPT ![k].result = v]
                   [] OTHER -> tool_calls' = tool_calls
      ]_vars

\* the call "a" has its preview as result and a later result event for the
\* unknown id "z" was dropped
C6_Witness ==
    /\ pc = "s_iter"
    /\ event = ToolResultEvent("z", "cart-42", "R")
    /\ Len(tool_calls) = 1
    /\ tool_calls[1].name = "create_cart"
    /\ tool_calls[1].result = "cart-42"

-----------------------------------------------------------------------------
(* Properties of the page, checked under Spec *)

\* C3 (amended): every descriptor decoded adds one entry, and the ids
\* synthesized from the position are distinct from one another; a supplied id
\* is taken as it is, also when an entry with that id exists.
C3_SynthesizedIdsDistinct ==
    /\ Len(tool_calls) = Len(Decoded)
    /\ \A i, j \in 1..Len(Decoded) :
          (i # j /\ NoIdDescriptor(Decoded[i]) /\ NoIdDescriptor(Decoded[j]))
          => tool_calls[i].id # tool_calls[j].id

\* the supplied id "1" was followed by two descriptors without id from
\* different messages: their ids "1" and "2" differ, the supplied "1" is
\* in the list twice
C3_Witness ==
    /\ pc = "x_returned"
    /\ Len(tool_calls) = 3
    /\ Len(all_messages) = 3
    /\ start_index = 0
    /\ ~NoIdDescriptor(Decoded[1])
    /\ NoIdDescriptor(Decoded[2])
    /\ NoIdDescriptor(Decoded[3])
    /\ tool_calls[1].id = "1"
    /\ tool_calls[2].id = "1"
    /\ tool_calls[3].id = "2"

\* C8: when the session call or the event iteration raises, the script run
\* ends with the exception: the transcript gains the user entry alone, no
\* assistant entry and no invocation list of that turn is stored.
C8_FailedTurnStoresNothing ==
    [][ outcome' = "turn_raised"
        => /\ \E prompt \in Prompts : messages' = Append(messages, UserEntry(prompt))
           /\ \A i \in 1..Len(messages') :
                 messages'[i].role = "assistant" => i <= Len(messages)
      ]_vars

\* a turn failed after a turn that had stored tool calls
C8_Witness ==
    /\ outcome = "turn_raised"
    /\ chat # NoChat
    /\ Len(messages) = 3
    /\ messages[2].role = "assistant"
    /\ messages[2].tool_calls # <<>>
    /\ messages[3].role = "user"

IsPrefix(s, t) == Len(s) <= Len(t) /\ SubSeq(t, 1, Len(s)) = s

CompleteTurns(m) ==
    /\ Len(m) % 2 = 0
    /\ \A i \in 1..Len(m) :
          m[i].role = IF i % 2 = 1 THEN "user" ELSE "assistant"

\* C9: between script runs the transcript is a sequence of complete turns
\* (user, assistant, user, assistant, ...), and it only grows by appended
\* entries or is cleared wholesale.
C9_CompleteTurns ==
    [][ /\ CompleteTurns(messages')
        /\ IsPrefix(messages, messages') \/ messages' = <<>>
      ]_vars

EveryAnswerFollowsItsPrompt(m) ==
    \A i \in 1..Len(m) :
        /\ m[i].role \in {"user", "assistant"}
        /\ m[i].role = "assistant" => i > 1 /\ m[i - 1].role = "user"

\* C9 (amended): every assistant entry of the transcript directly follows a
\* user entry, a user entry whose turn raised has no assistant entry, and the
\* transcript only grows by appended entries or is cleared wholesale.
C9_AnswersFollowPrompts ==
    [][ /\ EveryAnswerFollowsItsPrompt(messages')
        /\ IsPrefix(messages, messages') \/ messages' = <<>>
      ]_vars

\* a failed turn left its prompt in the transcript and the next turn completed
C9_Witness ==
    /\ Len(messages) = 3
    /\ messages[1].role = "user"
    /\ messages[2].role = "user"
    /\ messages[3].role = "assistant"
    /\ outcome = "rerun"

\* C10: server_url is set exactly when agent and chat are both set.
C10_ConnectedTogether ==
    (server_url # None) <=> (agent # None /\ chat # NoChat)

====
